---- MODULE Spec2Model ----
(***************************************************************************)
(* A model of the VlibeStorage client (src/src/VlibeStorage.ts): the       *)
(* auth token and request headers, the transport, get/delete, canUpload,   *)
(* the batched deleteMany, the presigned uploadWithProgress flow and the   *)
(* storage-config cache with getPublicUrl; and of the upload state of the  *)
(* useStorage hook (src/src/hooks/useStorage.ts).                          *)
(*                                                                         *)
(* JavaScript strings are modelled as sequences of one-character strings,  *)
(* so that includes(), replace() and template concatenation are computed.  *)
(* An async method is split at its awaits: the synchronous part up to the  *)
(* dispatch of a request is one action, each continuation another.         *)
(***************************************************************************)
EXTENDS Integers, Sequences, FiniteSets

VARIABLES
    storageConfig,  \* this.storageConfig: NoConfig (null) or a StorageConfig
    cfgCall,        \* the getStorageConfig calls, by call slot
    fetches,        \* number of GET /storage/config requests dispatched
    urlResult,      \* the last getPublicUrl call: its key and returned url
    cfgLast,        \* the config operation that ran last
    resCall,        \* one get / delete call: position, reply seen, outcome
    fileIds,        \* deleteMany: the argument
    replyPlan,      \* deleteMany: what the server answers, by position
    dmPc,           \* deleteMany: "idle", "awaiting", "returned", "rejected"
    dmI,            \* deleteMany: the loop variable i
    pending,        \* deleteMany: positions whose delete() has not settled
    results,        \* deleteMany: settled outcomes of the running batch
    deleted,        \* deleteMany: the deleted array
    failed,         \* deleteMany: the failed array
    batches,        \* deleteMany: number of batches dispatched so far
    dmHeaders,      \* deleteMany: the headers of each batch's requests
    upPc,           \* uploadWithProgress: its position
    upSent,         \* uploadWithProgress: the requests sent, in order
    upHeaders,      \* uploadWithProgress: the headers of each request sent
    fileSize,       \* uploadWithProgress: file.size
    onProgress,     \* uploadWithProgress: whether options.onProgress is given
    xhrEvent,       \* the last upload progress event of the XHR
    delivered,      \* values passed to options.onProgress: the last, count
    upOutcome,      \* uploadWithProgress: how each awaited step ended
    quotaCall,      \* one canUpload call: position, reply seen, outcome
    authToken,      \* this.authToken: NoToken (null) or a string
    uploading,      \* useStorage: the uploading state
    uploadProgress, \* useStorage: the uploadProgress state
    hookCall        \* useStorage: the upload calls made through the hook, by slot

cfgVars == <<storageConfig, cfgCall, fetches, urlResult, cfgLast>>
resVars == <<resCall>>
dmVars  == <<fileIds, replyPlan, dmPc, dmI, pending, results, deleted, failed, batches,
             dmHeaders>>
upVars  == <<upPc, upSent, upHeaders, fileSize, onProgress, xhrEvent, delivered,
             upOutcome>>
quotaVars == <<quotaCall>>
authVars  == <<authToken>>
hookVars  == <<uploading, uploadProgress, hookCall>>
vars    == <<cfgVars, resVars, dmVars, upVars, quotaVars, authVars, hookVars>>

----------------------------------------------------------------------------
(* Strings *)

\* String.prototype.includes: sub occurs in s as a contiguous substring.
Includes(s, sub) ==
    \E i \in 0..(Len(s) - Len(sub)) : SubSeq(s, i + 1, i + Len(sub)) = sub

Digits == <<"0", "1", "2", "3", "4", "5", "6", "7", "8", "9">>

\* Number to decimal string, as a template literal formats it.
RECURSIVE NumberToString(_)
NumberToString(n) ==
    IF n < 10 THEN <<Digits[n + 1]>>
    ELSE NumberToString(n \div 10) \o <<Digits[(n % 10) + 1]>>

\* A string in a boolean position: the empty string is falsy.
Truthy(s) == s # <<>>

NotFoundText == <<"n", "o", "t", " ", "f", "o", "u", "n", "d">>

ErrFileNotFound == <<"f", "i", "l", "e", " ", "n", "o", "t", " ", "f", "o", "u", "n", "d">>
ErrForbidden    == <<"f", "o", "r", "b", "i", "d", "d", "e", "n">>
ErrCapitalised  == <<"F", "i", "l", "e", " ", "N", "o", "t", " ", "F", "o", "u", "n", "d">>

GetFailedText    == <<"F", "a", "i", "l", "e", "d", " ", "t", "o", " ", "g", "e", "t", " ", "f", "i", "l", "e">>
DeleteFailedText == <<"F", "a", "i", "l", "e", "d", " ", "t", "o", " ", "d", "e", "l", "e", "t", "e", " ", "f", "i", "l", "e">>

----------------------------------------------------------------------------
(* Auth token *)

\* this.authToken = null
NoToken == [isNull |-> TRUE, value |-> <<>>]

Token(value) == [isNull |-> FALSE, value |-> value]

TokenA == <<"t", "o", "k", "e", "n", "-", "a">>
TokenB == <<"t", "o", "k", "e", "n", "-", "b">>

\* The strings passed to setAuthToken; the empty string is one of them.
TokenStrings == {<<>>, TokenA, TokenB}

setAuthToken(token) ==
    /\ authToken' = Token(token)
    /\ UNCHANGED <<cfgVars, resVars, dmVars, upVars, quotaVars, hookVars>>

clearAuthToken ==
    /\ authToken' = NoToken
    /\ UNCHANGED <<cfgVars, resVars, dmVars, upVars, quotaVars, hookVars>>

\* config.appId and config.appSecret of the constructor.
AppId == <<"a", "p", "p", "-", "1">>
AppSecret == <<"s", "e", "c", "r", "e", "t", "-", "1">>

\* Headers are a set of name / value pairs, one pair per name.
Header(name, value) == [name |-> name, value |-> value]
NoHeaders == {}

\* {...base, ...over}: a name of over replaces the same name of base.
Spread(base, over) ==
    {h \in base : \A o \in over : o.name # h.name} \cup over

Bearer == <<"B", "e", "a", "r", "e", "r", " ">>

RequestHeadersWithoutAuthorization(token, optionHeaders) ==
    Spread({Header("X-App-Id", AppId), Header("X-App-Secret", AppSecret)},
           optionHeaders)

\* The headers request() passes to fetch: the app credentials, the caller's
\* headers, and Authorization when this.authToken is truthy.
RequestHeaders(token, optionHeaders) ==
    LET headers == Spread({Header("X-App-Id", AppId),
                           Header("X-App-Secret", AppSecret)}, optionHeaders)
    IN  IF ~token.isNull /\ Truthy(token.value)
        THEN Spread(headers, {Header("Authorization", Bearer \o token.value)})
        ELSE headers

JsonContentType ==
    {Header("Content-Type", <<"a", "p", "p", "l", "i", "c", "a", "t", "i", "o", "n", "/", "j", "s", "o", "n">>)}

\* file.type of the file uploaded.
FileType == <<"i", "m", "a", "g", "e", "/", "p", "n", "g">>

XhrHeadersLikeRequest(token, fileType) ==
    RequestHeaders(token, {Header("Content-Type", fileType)})

\* The headers set on the XHR that PUTs the file to uploadUrl.
XhrHeaders(token, fileType) == {Header("Content-Type", fileType)}

----------------------------------------------------------------------------
(* Transport *)

\* What fetch() and response.json() can produce for one request.  net = "fail"
\* is a rejected fetch; body.kind = "malformed" a body json() cannot parse;
\* "null" the JSON value null; "object" a JSON object, whose absent fields
\* have hasError / hasData FALSE (an absent success reads as falsy).
StatusTextOf(status) ==
    CASE status = 200 -> <<"O", "K">>
      [] status = 403 -> <<"F", "o", "r", "b", "i", "d", "d", "e", "n">>
      [] status = 404 -> <<"N", "o", "t", " ", "F", "o", "u", "n", "d">>
      [] OTHER        -> <<>>

Statuses == {200, 403, 404}

ErrorTexts == {<<>>, ErrFileNotFound, ErrForbidden, ErrCapitalised}

NoBody == [kind |-> "malformed", success |-> FALSE, hasError |-> FALSE,
           error |-> <<>>, hasData |-> FALSE]

Bodies ==
    {NoBody, [NoBody EXCEPT !.kind = "null"]}
    \cup {[kind |-> "object", success |-> s, hasError |-> FALSE, error |-> <<>>,
           hasData |-> d] : s \in BOOLEAN, d \in BOOLEAN}
    \cup {[kind |-> "object", success |-> s, hasError |-> TRUE, error |-> e,
           hasData |-> d] : s \in BOOLEAN, e \in ErrorTexts, d \in BOOLEAN}

NetworkFailure == [net |-> "fail", status |-> 0, body |-> NoBody]

HttpReplies ==
    {NetworkFailure}
    \cup {[net |-> "ok", status |-> st, body |-> b] : st \in Statuses, b \in Bodies}

\* response.ok
Ok(reply) == reply.status >= 200 /\ reply.status <= 299

\* What request() hands to its caller: a thrown exception, or the value it
\* returns (the JSON null, or an envelope).
Thrown == [thrown |-> TRUE, isNull |-> FALSE, success |-> FALSE,
           hasError |-> FALSE, error |-> <<>>, hasData |-> FALSE]

Envelope(success, hasError, error, hasData) ==
    [thrown |-> FALSE, isNull |-> FALSE, success |-> success,
     hasError |-> hasError, error |-> error, hasData |-> hasData]

SynthesizedStatusOnly(reply) ==
    <<"H", "T", "T", "P", " ">> \o NumberToString(reply.status)

\* `HTTP ${response.status}: ${response.statusText}`
SynthesizedError(reply) ==
    <<"H", "T", "T", "P", " ">> \o NumberToString(reply.status) \o <<":", " ">>
        \o StatusTextOf(reply.status)

RefetchesOnFailure(reply, fetched) == reply.net = "fail" /\ fetched < 2

\* Whether request() calls fetch again after a reply: fetch is awaited once,
\* outside any loop or catch block.
Refetches(reply, fetched) == FALSE

request(reply) ==
    IF reply.net = "fail" THEN Thrown                \* await fetch(...) rejects
    ELSE IF reply.body.kind = "malformed" THEN Thrown \* await response.json() rejects
    ELSE IF reply.body.kind = "null" THEN
        \* data is null: data.error is evaluated only when !response.ok
        IF ~Ok(reply) THEN Thrown ELSE [Thrown EXCEPT !.thrown = FALSE, !.isNull = TRUE]
    ELSE IF ~Ok(reply) /\ ~(reply.body.hasError /\ Truthy(reply.body.error)) THEN
        Envelope(FALSE, TRUE, SynthesizedError(reply), FALSE)
    ELSE
        Envelope(reply.body.success, reply.body.hasError, reply.body.error,
                 reply.body.hasData)

----------------------------------------------------------------------------
(* get and delete *)

\* The outcome of a method: a returned value or a raised error with its message.
Return(v) == [raised |-> FALSE, value |-> v, message |-> <<>>]
Raise(msg) == [raised |-> TRUE, value |-> "none", message |-> msg]
NoOutcome == [raised |-> FALSE, value |-> "none", message |-> <<>>]

LowerCase(c) ==
    CASE c = "N" -> "n" [] c = "F" -> "f" [] c = "H" -> "h" [] c = "T" -> "t"
      [] c = "P" -> "p" [] OTHER -> c

ErrorIncludesNotFoundAnyCase(response) ==
    /\ response.hasError
    /\ Includes([k \in 1..Len(response.error) |-> LowerCase(response.error[k])],
                NotFoundText)

\* response.error?.includes('not found')
ErrorIncludesNotFound(response) ==
    response.hasError /\ Includes(response.error, NotFoundText)

\* response.error || fallback
ErrorOr(response, fallback) ==
    IF response.hasError /\ Truthy(response.error) THEN response.error ELSE fallback

\* get(fileId), from the result of its request on.
get(response) ==
    IF response.thrown \/ response.isNull THEN Raise(<<>>)
    ELSE IF ~response.success THEN
        IF ErrorIncludesNotFound(response) THEN Return("null")
        ELSE Raise(ErrorOr(response, GetFailedText))
    ELSE IF response.hasData THEN Return("file") ELSE Return("null")

\* delete(fileId), from the result of its request on.
delete(response) ==
    IF response.thrown \/ response.isNull THEN Raise(<<>>)
    ELSE IF ~response.success THEN
        IF ErrorIncludesNotFound(response) THEN Return("false")
        ELSE Raise(ErrorOr(response, DeleteFailedText))
    ELSE Return("true")

\* fetched counts the fetch() calls request() made for the call; response is
\* what request() handed to the method.
IdleCall == [pc |-> "idle", op |-> "get", reply |-> NetworkFailure,
             fetched |-> 0, response |-> Thrown, outcome |-> NoOutcome]

\* get(fileId) / delete(fileId) up to the await: the request is dispatched.
ResourceCall(op) ==
    /\ resCall.pc # "inflight"
    /\ resCall' = [IdleCall EXCEPT !.pc = "inflight", !.op = op, !.fetched = 1]
    /\ UNCHANGED <<cfgVars, dmVars, upVars, quotaVars, authVars, hookVars>>

\* The request settles and the method runs to its end.
ResourceSettle(reply) ==
    /\ resCall.pc = "inflight"
    /\ resCall' =
         IF Refetches(reply, resCall.fetched)
         THEN [resCall EXCEPT !.fetched = @ + 1]
         ELSE [resCall EXCEPT
                 !.pc = "settled",
                 !.reply = reply,
                 !.response = request(reply),
                 !.outcome = IF resCall.op = "get" THEN get(request(reply))
                             ELSE delete(request(reply))]
    /\ UNCHANGED <<cfgVars, dmVars, upVars, quotaVars, authVars, hookVars>>

----------------------------------------------------------------------------
(* canUpload *)

CheckFailedText == <<"F", "a", "i", "l", "e", "d", " ", "t", "o", " ", "c", "h", "e", "c", "k", " ", "u", "p", "l", "o", "a", "d">>

QuotaExceeded == <<"q", "u", "o", "t", "a", " ", "e", "x", "c", "e", "e", "d", "e", "d">>

\* The data field of the answer to POST /storage/usage: absent, null, or a
\* CanUploadResult {allowed, reason?}.
NoVerdict == [kind |-> "absent", allowed |-> FALSE, hasReason |-> FALSE,
              reason |-> <<>>]

Verdicts ==
    {[kind |-> "verdict", allowed |-> a, hasReason |-> FALSE, reason |-> <<>>] :
        a \in BOOLEAN}
    \cup {[kind |-> "verdict", allowed |-> a, hasReason |-> TRUE, reason |-> r] :
        a \in BOOLEAN, r \in {<<>>, QuotaExceeded}}

QuotaData == {NoVerdict, [NoVerdict EXCEPT !.kind = "null"]} \cup Verdicts

\* An HTTP reply with the data it carries; body.hasData says data is truthy.
QuotaReplies ==
    {[http |-> h, data |-> d] : h \in HttpReplies, d \in QuotaData}
    \ {r \in [http : HttpReplies, data : QuotaData] :
          (r.data.kind = "verdict") # (r.http.body.kind = "object" /\ r.http.body.hasData)}

Denied == [kind |-> "verdict", allowed |-> FALSE, hasReason |-> FALSE,
           reason |-> <<>>]

ReturnVerdict(data) == [raised |-> FALSE, message |-> <<>>, verdict |-> data]
RaiseQuota(msg) == [raised |-> TRUE, message |-> msg, verdict |-> NoVerdict]

canUploadDeniesOnFailure(response, data) ==
    IF response.thrown \/ response.isNull THEN ReturnVerdict(Denied)
    ELSE IF ~response.success \/ ~response.hasData THEN ReturnVerdict(Denied)
    ELSE ReturnVerdict(data)

\* canUpload(size), from the result of its request on.
canUpload(response, data) ==
    IF response.thrown \/ response.isNull THEN RaiseQuota(<<>>)
    ELSE IF ~response.success \/ ~response.hasData
         THEN RaiseQuota(ErrorOr(response, CheckFailedText))
    ELSE ReturnVerdict(data)

IdleQuotaCall == [pc |-> "idle", reply |-> [http |-> NetworkFailure, data |-> NoVerdict],
                  outcome |-> ReturnVerdict(NoVerdict)]

\* canUpload(size) up to the await: POST /storage/usage is dispatched.
CanUploadCall ==
    /\ quotaCall.pc # "inflight"
    /\ quotaCall' = [IdleQuotaCall EXCEPT !.pc = "inflight"]
    /\ UNCHANGED <<cfgVars, resVars, dmVars, upVars, authVars, hookVars>>

\* The request settles and canUpload runs to its end.
CanUploadSettle(reply) ==
    /\ quotaCall.pc = "inflight"
    /\ quotaCall' = [quotaCall EXCEPT
                       !.pc = "settled",
                       !.reply = reply,
                       !.outcome = canUpload(request(reply.http), reply.data)]
    /\ UNCHANGED <<cfgVars, resVars, dmVars, upVars, authVars, hookVars>>

----------------------------------------------------------------------------
(* Storage config and public URLs *)

MaxCalls == 2      \* getStorageConfig calls that may be running at once
MaxFetches == 3    \* config requests dispatched in one behaviour

CallSlots == 1..MaxCalls

NoConfig == [isNull |-> TRUE, provider |-> <<>>, publicUrlBase |-> <<>>]

StorageConfig(provider, publicUrlBase) ==
    [isNull |-> FALSE, provider |-> provider, publicUrlBase |-> publicUrlBase]

\* The fallback descriptor getStorageConfig returns.
LegacyConfig ==
    StorageConfig(<<"w", "a", "s", "a", "b", "i">>,
                  <<"h", "t", "t", "p", "s", ":", "/", "/", "s", "3", ".", "e", "u", "-", "c", "e", "n", "t", "r", "a", "l", "-", "2", ".", "w", "a", "s", "a", "b", "i", "s", "y", "s", ".", "c", "o", "m", "/", "v", "l", "i", "b", "e", ".", "c", "o", "m">>)

CdnBase == <<"h", "t", "t", "p", "s", ":", "/", "/", "c", "d", "n", ".", "e", "x", "a", "m", "p", "l", "e", "/", "x">>

\* The descriptors the server may serve: a base without a trailing slash, with
\* one, with two, and the empty base.
PublicUrlBases == {CdnBase, CdnBase \o <<"/">>, CdnBase \o <<"/", "/">>, <<>>}

ServedConfigs == {StorageConfig(<<"r", "2">>, b) : b \in PublicUrlBases}

\* A reply to GET /storage/config: the HTTP reply and, when its body has a
\* data field, the descriptor in it.
ConfigHttpReplies ==
    {NetworkFailure,
     [net |-> "ok", status |-> 200, body |-> NoBody],
     [net |-> "ok", status |-> 200, body |-> [NoBody EXCEPT !.kind = "null"]]}
    \cup {[net |-> "ok", status |-> st,
           body |-> [kind |-> "object", success |-> s, hasError |-> e # <<>>,
                     error |-> e, hasData |-> d]] :
            st \in {200, 404}, s \in BOOLEAN, e \in {<<>>, ErrForbidden},
            d \in BOOLEAN}

ConfigReplies ==
    {[http |-> r, data |-> IF r.body.hasData THEN d ELSE NoConfig] :
        r \in ConfigHttpReplies, d \in ServedConfigs}

Keys == {<<"a", "/", "b">>, <<"/", "k">>, <<>>}

\* if (this.storageConfig)
CacheHitNever(config) == FALSE
CacheHit(config) == ~config.isNull

\* response.success && response.data, inside the try block: an exception of
\* request(), or of reading a field of null, is caught and falls through.
FetchSucceeded(response) ==
    ~response.thrown /\ ~response.isNull /\ response.success /\ response.hasData

\* Whether a reply to GET /storage/config serves a descriptor: request()
\* returns an envelope with success and data from it.
ServesConfig(reply) ==
    LET envelope == request(reply.http)
    IN  ~envelope.thrown /\ ~envelope.isNull /\ envelope.success /\ envelope.hasData

\* A call: its position, what its fetch met ("none", "failed", "served"),
\* the value it returned, whether it raised instead, and whether
\* clearStorageConfigCache has run while its fetch was in flight.
IdleConfigCall == [pc |-> "idle", fetched |-> "none", ret |-> NoConfig,
                   raised |-> FALSE, cleared |-> FALSE]

\* getStorageConfig() up to its first await, or to its return on a cache hit.
getStorageConfig(c) ==
    /\ cfgCall[c].pc = "idle"
    /\ IF CacheHit(storageConfig)
       THEN /\ cfgCall' = [cfgCall EXCEPT ![c] = [pc |-> "returned",
                                                   fetched |-> "none",
                                                   ret |-> storageConfig,
                                                   raised |-> FALSE,
                                                   cleared |-> FALSE]]
            /\ UNCHANGED fetches
       ELSE /\ fetches < MaxFetches
            /\ fetches' = fetches + 1
            /\ cfgCall' = [cfgCall EXCEPT ![c].pc = "fetching"]
    /\ cfgLast' = "getStorageConfig"
    /\ UNCHANGED <<storageConfig, urlResult, resVars, dmVars, upVars, quotaVars, authVars, hookVars>>

\* What a settled config request stores in this.storageConfig.
CacheAfterWithFallback(cache, response, data) ==
    IF FetchSucceeded(response) THEN data ELSE LegacyConfig
CacheAfter(cache, response, data) ==
    IF FetchSucceeded(response) THEN data ELSE cache

\* What getStorageConfig returns once its request has settled.
ConfigReturned(response, data) ==
    IF FetchSucceeded(response) THEN data ELSE LegacyConfig

\* The request of call c settles and getStorageConfig runs to its end.
getStorageConfigSettle(c, reply) ==
    /\ cfgCall[c].pc = "fetching"
    /\ storageConfig' = CacheAfter(storageConfig, request(reply.http), reply.data)
    /\ cfgCall' = [cfgCall EXCEPT ![c] =
                     [pc |-> "returned",
                      fetched |-> IF ServesConfig(reply) THEN "served" ELSE "failed",
                      ret |-> ConfigReturned(request(reply.http), reply.data),
                      raised |-> FALSE,
                      cleared |-> FALSE]]
    /\ cfgLast' = "settle"
    /\ UNCHANGED <<fetches, urlResult, resVars, dmVars, upVars, quotaVars, authVars, hookVars>>

\* The caller takes the result of call c; the slot is free for another call.
ConfigCallDone(c) ==
    /\ cfgCall[c].pc = "returned"
    /\ cfgCall' = [cfgCall EXCEPT ![c] = IdleConfigCall]
    /\ UNCHANGED <<storageConfig, fetches, urlResult, cfgLast, resVars, dmVars, upVars, quotaVars, authVars, hookVars>>

\* What clearStorageConfigCache() stores in this.storageConfig.
CacheKept == storageConfig
CacheCleared == NoConfig

clearStorageConfigCache ==
    /\ storageConfig' = CacheCleared
    /\ cfgCall' = [c \in CallSlots |->
                     IF cfgCall[c].pc = "fetching"
                     THEN [cfgCall[c] EXCEPT !.cleared = TRUE]
                     ELSE cfgCall[c]]
    /\ cfgLast' = "clearStorageConfigCache"
    /\ UNCHANGED <<fetches, urlResult, resVars, dmVars, upVars, quotaVars, authVars, hookVars>>

\* String.prototype.replace(/\/$/, ''): one slash at the end is removed.
RECURSIVE StripAllTrailingSlashes(_)
StripAllTrailingSlashes(s) ==
    IF Len(s) > 0 /\ s[Len(s)] = "/"
    THEN StripAllTrailingSlashes(SubSeq(s, 1, Len(s) - 1))
    ELSE s
StripTrailingSlash(s) ==
    IF Len(s) > 0 /\ s[Len(s)] = "/" THEN SubSeq(s, 1, Len(s) - 1) ELSE s

LegacyRegion == <<"e", "u", "-", "c", "e", "n", "t", "r", "a", "l", "-", "2">>
LegacyBucket == <<"v", "l", "i", "b", "e", ".", "c", "o", "m">>

\* The value getPublicUrl(key) returns.
PublicUrl(config, key) ==
    IF ~config.isNull
    THEN StripTrailingSlash(config.publicUrlBase) \o <<"/">> \o key
    ELSE <<"h", "t", "t", "p", "s", ":", "/", "/", "s", "3", ".">> \o LegacyRegion
         \o <<".", "w", "a", "s", "a", "b", "i", "s", "y", "s", ".", "c", "o", "m", "/">>
         \o LegacyBucket \o <<"/">> \o key

NoUrl == [called |-> FALSE, key |-> <<>>, url |-> <<>>]

getPublicUrl(key) ==
    /\ urlResult' = [called |-> TRUE, key |-> key, url |-> PublicUrl(storageConfig, key)]
    /\ cfgLast' = "getPublicUrl"
    /\ UNCHANGED <<storageConfig, cfgCall, fetches, resVars, dmVars, upVars, quotaVars, authVars, hookVars>>

----------------------------------------------------------------------------
(* deleteMany *)

batchSize == 10

MaxIds == 21       \* longest id list passed to deleteMany
DupPeriod == 3     \* the list with repeated ids cycles through this many ids
MaxMixed == 3      \* lists up to this length get every combination of replies

\* The lists passed to deleteMany: n pairwise distinct ids, or n ids cycling
\* through DupPeriod values (so that an id occurs several times).
IdLists ==
    {[p \in 1..n |-> p] : n \in 0..MaxIds}
    \cup {[p \in 1..n |-> ((p - 1) % DupPeriod) + 1] : n \in 0..MaxIds}

\* The replies a DELETE /storage/{id} gets: success, the two kinds of
\* unsuccessful envelope, and a failed fetch.
DeleteSucceeds ==
    [net |-> "ok", status |-> 200,
     body |-> [kind |-> "object", success |-> TRUE, hasError |-> FALSE,
               error |-> <<>>, hasData |-> FALSE]]
DeleteNotFound ==
    [net |-> "ok", status |-> 404,
     body |-> [kind |-> "object", success |-> FALSE, hasError |-> TRUE,
               error |-> ErrFileNotFound, hasData |-> FALSE]]
DeleteForbidden ==
    [net |-> "ok", status |-> 403,
     body |-> [kind |-> "object", success |-> FALSE, hasError |-> TRUE,
               error |-> ErrForbidden, hasData |-> FALSE]]

ReplyCycle == <<DeleteSucceeds, DeleteNotFound, DeleteForbidden, NetworkFailure>>

DeleteReplies == {ReplyCycle[k] : k \in 1..Len(ReplyCycle)}

\* What the server answers to the delete of each position: for a short list
\* any combination of replies; for a longer one the same reply throughout,
\* or the four replies in turn, starting with any of them.
ReplyPlans(n) ==
    IF n <= MaxMixed THEN [1..n -> DeleteReplies]
    ELSE {[p \in 1..n |-> r] : r \in DeleteReplies}
         \cup {[p \in 1..n |-> ReplyCycle[((p + k) % Len(ReplyCycle)) + 1]] :
                 k \in 1..Len(ReplyCycle)}

ReplyAt(p) == replyPlan[p]

\* How the promise of this.delete(id) settles, as Promise.allSettled reports
\* it: "rejected", or fulfilled with "true" or "false".
Settlement(outcome) == IF outcome.raised THEN "rejected" ELSE outcome.value

Min(a, b) == IF a < b THEN a ELSE b

\* fileIds.slice(i, i + batchSize), as positions of fileIds (1-based).
BatchPositions(i) == (i + 1)..Min(i + batchSize, Len(fileIds))

BatchSeq(i) == [k \in 1..Cardinality(BatchPositions(i)) |-> i + k]

\* Promise.allSettled resolves once every promise has settled ...
AnySettled(waiting) == TRUE
AllSettled(waiting) == waiting = {}

\* ... and never rejects, whatever the promises did.
RejectsOnFirstRejection(rs) == \E p \in DOMAIN rs : rs[p] = "rejected"
AllSettledRejects(rs) == FALSE

\* result.status === 'fulfilled' && result.value
IsDeleted(rs, p) == p \in DOMAIN rs /\ rs[p] = "true"

IdsAt(ps) == [k \in 1..Len(ps) |-> fileIds[ps[k]]]

\* The ids results.forEach pushes to deleted, and to failed, for batch i.
PushedDeleted(i) ==
    IdsAt(SelectSeq(BatchSeq(i), LAMBDA p : IsDeleted(results, p)))
PushedOnlyRejected(i) ==
    IdsAt(SelectSeq(BatchSeq(i), LAMBDA p : p \in DOMAIN results /\ results[p] = "rejected"))
PushedFailed(i) ==
    IdsAt(SelectSeq(BatchSeq(i), LAMBDA p : ~IsDeleted(results, p)))

\* deleteMany(fileIds) up to its first await: the first batch is dispatched,
\* or, for an empty list, the empty result returned.
deleteMany ==
    /\ dmPc = "idle"
    /\ IF 0 < Len(fileIds)
       THEN /\ pending' = BatchPositions(0)
            /\ batches' = 1
            /\ dmHeaders' = Append(dmHeaders, RequestHeaders(authToken, NoHeaders))
            /\ dmPc' = "awaiting"
       ELSE /\ dmPc' = "returned"
            /\ UNCHANGED <<pending, batches, dmHeaders>>
    /\ UNCHANGED <<fileIds, replyPlan, dmI, results, deleted, failed>>
    /\ UNCHANGED <<cfgVars, resVars, upVars, quotaVars, authVars, hookVars>>

\* The request of the delete at position p settles, and so does its promise.
deleteSettle(p) ==
    /\ p \in pending
    /\ pending' = pending \ {p}
    /\ results' = [q \in DOMAIN results \cup {p} |->
                     IF q = p THEN Settlement(delete(request(ReplyAt(p))))
                     ELSE results[q]]
    /\ UNCHANGED <<fileIds, replyPlan, dmPc, dmI, deleted, failed, batches, dmHeaders>>
    /\ UNCHANGED <<cfgVars, resVars, upVars, quotaVars, authVars, hookVars>>

\* The await of Promise.allSettled ends: the results are sorted into the two
\* arrays, and the loop dispatches the next batch or deleteMany returns.
deleteManyResume ==
    /\ dmPc = "awaiting"
    /\ AllSettled(pending)
    /\ IF AllSettledRejects(results)
       THEN /\ dmPc' = "rejected"
            /\ UNCHANGED <<dmI, pending, results, deleted, failed, batches, dmHeaders>>
       ELSE /\ deleted' = deleted \o PushedDeleted(dmI)
            /\ failed' = failed \o PushedFailed(dmI)
            /\ dmI' = dmI + batchSize
            /\ results' = <<>>
            /\ IF dmI + batchSize < Len(fileIds)
               THEN /\ pending' = pending \cup BatchPositions(dmI + batchSize)
                    /\ batches' = batches + 1
                    /\ dmHeaders' = Append(dmHeaders,
                                           RequestHeaders(authToken, NoHeaders))
                    /\ UNCHANGED dmPc
               ELSE /\ dmPc' = "returned"
                    /\ UNCHANGED <<pending, batches, dmHeaders>>
    /\ UNCHANGED <<fileIds, replyPlan>>
    /\ UNCHANGED <<cfgVars, resVars, upVars, quotaVars, authVars, hookVars>>

----------------------------------------------------------------------------
(* uploadWithProgress *)

MaxFileSize == 201   \* the largest file uploaded, in bytes

\* The sizes uploaded.  No size here makes loaded / total * 100 fall on a
\* half whose double is rounded the other way (40 and 200 are such sizes).
FileSizes == {1, 3, MaxFileSize}

\* Replies to the acquire and the confirm request: a failed fetch, a body
\* that does not parse, a non-2xx reply without an error field, an
\* unsuccessful envelope, a successful envelope without data, and one with.
UploadReplies ==
    {NetworkFailure,
     [net |-> "ok", status |-> 200, body |-> NoBody],
     [net |-> "ok", status |-> 404,
      body |-> [kind |-> "object", success |-> FALSE, hasError |-> FALSE,
                error |-> <<>>, hasData |-> FALSE]],
     [net |-> "ok", status |-> 403,
      body |-> [kind |-> "object", success |-> FALSE, hasError |-> TRUE,
                error |-> ErrForbidden, hasData |-> FALSE]],
     [net |-> "ok", status |-> 200,
      body |-> [kind |-> "object", success |-> TRUE, hasError |-> FALSE,
                error |-> <<>>, hasData |-> FALSE]],
     [net |-> "ok", status |-> 200,
      body |-> [kind |-> "object", success |-> TRUE, hasError |-> FALSE,
                error |-> <<>>, hasData |-> TRUE]]}

\* The statuses the storage backend answers the binary PUT with.
XhrStatuses == {199, 200, 204, 299, 300, 403}

AcquireRequest == "POST /storage/upload-url"
BinaryPut      == "PUT uploadUrl"
ConfirmRequest == "PUT /storage/upload-url"

\* !response.success || !response.data: the method throws.  An exception of
\* request() propagates, and so does reading a field of null.
PayloadMissing(response) ==
    response.thrown \/ response.isNull \/ ~response.success \/ ~response.hasData

\* The load listener: xhr.status >= 200 && xhr.status < 300
ResolvesOnAnyStatus(status) == TRUE
XhrResolves(status) == status >= 200 /\ status < 300

\* Math.round((e.loaded / e.total) * 100): the nearest integer, a half
\* rounded up.
Percent(loaded, total) == (200 * loaded + total) \div (2 * total)

NoEvent == [seen |-> FALSE, lengthComputable |-> FALSE, loaded |-> 0,
            notified |-> FALSE]
NoneDelivered == [any |-> FALSE, last |-> 0]

\* How the awaited steps ended, as the network saw them: the replies to the
\* two JSON requests, the status of the load event (0: none), the error event.
NoReply == [net |-> "none", status |-> 0, body |-> NoBody]
NoSteps == [acquire |-> NoReply, put |-> 0, putError |-> FALSE, confirm |-> NoReply]

\* uploadWithProgress(file, options) up to its first await: getUploadUrl
\* dispatches the acquire request.
uploadWithProgress(size, callback) ==
    /\ upPc = "idle"
    /\ fileSize' = size
    /\ onProgress' = callback
    /\ upSent' = <<AcquireRequest>>
    /\ upHeaders' = <<RequestHeaders(authToken, JsonContentType)>>
    /\ upPc' = "acquiring"
    /\ UNCHANGED <<xhrEvent, delivered, upOutcome>>
    /\ UNCHANGED <<cfgVars, resVars, dmVars, quotaVars, authVars, hookVars>>

\* The acquire request settles: getUploadUrl throws, or the XHR is built,
\* its listeners added and the file sent to uploadUrl.
AcquireSettle(reply) ==
    /\ upPc = "acquiring"
    /\ upOutcome' = [upOutcome EXCEPT !.acquire = reply]
    /\ IF PayloadMissing(request(reply))
       THEN /\ upPc' = "rejected"
            /\ UNCHANGED <<upSent, upHeaders>>
       ELSE /\ upPc' = "putting"
            /\ upSent' = Append(upSent, BinaryPut)
            /\ upHeaders' = Append(upHeaders, XhrHeaders(authToken, FileType))
    /\ UNCHANGED <<fileSize, onProgress, xhrEvent, delivered>>
    /\ UNCHANGED <<cfgVars, resVars, dmVars, quotaVars, authVars, hookVars>>

\* A progress event of xhr.upload.  The bytes reported never decrease; an
\* event whose length is computable has e.total = file.size.
XhrProgress(computable, loaded) ==
    /\ upPc = "putting"
    /\ loaded >= xhrEvent.loaded
    /\ LET notify == onProgress /\ computable
       IN  /\ xhrEvent' = [seen |-> TRUE, lengthComputable |-> computable,
                           loaded |-> loaded, notified |-> notify]
           /\ delivered' = IF notify
                           THEN [any |-> TRUE, last |-> Percent(loaded, fileSize)]
                           ELSE delivered
    /\ UNCHANGED <<upPc, upSent, upHeaders, fileSize, onProgress, upOutcome>>
    /\ UNCHANGED <<cfgVars, resVars, dmVars, quotaVars, authVars, hookVars>>

\* The load event of the XHR: the promise resolves on a 2xx status, and the
\* confirm request is dispatched; any other status rejects the call.
XhrLoad(status) ==
    /\ upPc = "putting"
    /\ upOutcome' = [upOutcome EXCEPT !.put = status]
    /\ xhrEvent' = NoEvent
    /\ IF XhrResolves(status)
       THEN /\ upPc' = "confirming"
            /\ upSent' = Append(upSent, ConfirmRequest)
            /\ upHeaders' = Append(upHeaders, RequestHeaders(authToken, JsonContentType))
       ELSE /\ upPc' = "rejected"
            /\ UNCHANGED <<upSent, upHeaders>>
    /\ UNCHANGED <<fileSize, onProgress, delivered>>
    /\ UNCHANGED <<cfgVars, resVars, dmVars, quotaVars, authVars, hookVars>>

\* The error event of the XHR: the call rejects.
XhrError ==
    /\ upPc = "putting"
    /\ upOutcome' = [upOutcome EXCEPT !.putError = TRUE]
    /\ xhrEvent' = NoEvent
    /\ upPc' = "rejected"
    /\ UNCHANGED <<upSent, upHeaders, fileSize, onProgress, delivered>>
    /\ UNCHANGED <<cfgVars, resVars, dmVars, quotaVars, authVars, hookVars>>

\* The confirm request settles: the call throws or returns response.data.
ConfirmSettle(reply) ==
    /\ upPc = "confirming"
    /\ upOutcome' = [upOutcome EXCEPT !.confirm = reply]
    /\ upPc' = IF PayloadMissing(request(reply)) THEN "rejected" ELSE "resolved"
    /\ UNCHANGED <<upSent, upHeaders, fileSize, onProgress, xhrEvent, delivered>>
    /\ UNCHANGED <<cfgVars, resVars, dmVars, quotaVars, authVars, hookVars>>

----------------------------------------------------------------------------
(* The useStorage hook: upload and uploadWithProgress *)

MaxHookCalls == 2   \* upload calls made through the hook that may overlap

HookSlots == 1..MaxHookCalls

\* Values the client passes to onProgress (0-100).
ProgressValues == {0, 50, 100}

IdleHookCall == [pc |-> "idle", kind |-> "upload", result |-> "none"]

\* upload / uploadWithProgress of the hook up to the await of the client call.
HookUpload(h, kind) ==
    /\ hookCall[h].pc = "idle"
    /\ uploading' = TRUE
    /\ uploadProgress' = 0
    /\ hookCall' = [hookCall EXCEPT ![h] = [IdleHookCall EXCEPT !.pc = "uploading",
                                                               !.kind = kind]]
    /\ UNCHANGED <<cfgVars, resVars, dmVars, upVars, quotaVars, authVars>>

\* The onProgress callback the hook hands to client.uploadWithProgress.
HookProgress(h, progress) ==
    /\ hookCall[h].pc = "uploading"
    /\ hookCall[h].kind = "uploadWithProgress"
    /\ uploadProgress' = progress
    /\ UNCHANGED <<uploading, hookCall>>
    /\ UNCHANGED <<cfgVars, resVars, dmVars, upVars, quotaVars, authVars>>

\* The finally block.
Finally(h, result) ==
    /\ uploading' = FALSE
    /\ uploadProgress' = 0
    /\ hookCall' = [hookCall EXCEPT ![h].pc = "settled", ![h].result = result]

\* The client call settles: on success fetchFiles() is awaited, on failure
\* the catch block rethrows and the finally block runs.
HookClientSettle(h, ok) ==
    /\ hookCall[h].pc = "uploading"
    /\ IF ok
       THEN /\ hookCall' = [hookCall EXCEPT ![h].pc = "refreshing"]
            /\ UNCHANGED <<uploading, uploadProgress>>
       ELSE Finally(h, "rejected")
    /\ UNCHANGED <<cfgVars, resVars, dmVars, upVars, quotaVars, authVars>>

\* fetchFiles() settles (it catches its own errors), then the finally block.
HookRefreshed(h) ==
    /\ hookCall[h].pc = "refreshing"
    /\ Finally(h, "resolved")
    /\ UNCHANGED <<cfgVars, resVars, dmVars, upVars, quotaVars, authVars>>

\* The caller has seen the settled promise: the slot is free for a new call.
HookCallDone(h) ==
    /\ hookCall[h].pc = "settled"
    /\ hookCall' = [hookCall EXCEPT ![h] = IdleHookCall]
    /\ UNCHANGED <<uploading, uploadProgress>>
    /\ UNCHANGED <<cfgVars, resVars, dmVars, upVars, quotaVars, authVars>>

----------------------------------------------------------------------------
(* Specifications *)

InitConfigVars ==
    /\ storageConfig = NoConfig
    /\ cfgCall = [c \in CallSlots |-> IdleConfigCall]
    /\ fetches = 0
    /\ urlResult = NoUrl
    /\ cfgLast = "constructor"

InitResourceVars == resCall = IdleCall

InitDeleteVars ==
    /\ dmPc = "idle"
    /\ dmI = 0
    /\ pending = {}
    /\ results = <<>>
    /\ deleted = <<>>
    /\ failed = <<>>
    /\ batches = 0
    /\ dmHeaders = <<>>

InitUploadVars ==
    /\ upPc = "idle"
    /\ upSent = <<>>
    /\ upHeaders = <<>>
    /\ fileSize = 0
    /\ onProgress = FALSE
    /\ xhrEvent = NoEvent
    /\ delivered = NoneDelivered
    /\ upOutcome = NoSteps

InitQuotaVars == quotaCall = IdleQuotaCall

InitAuthVars == authToken = NoToken

InitHookVars ==
    /\ uploading = FALSE
    /\ uploadProgress = 0
    /\ hookCall = [h \in HookSlots |-> IdleHookCall]

InitOtherVars == InitQuotaVars /\ InitAuthVars /\ InitHookVars

\* No deleteMany call: an empty list.
NoDeleteMany ==
    /\ fileIds = <<>>
    /\ replyPlan = <<>>

Init ==
    /\ InitConfigVars /\ InitResourceVars /\ InitDeleteVars /\ InitUploadVars
    /\ InitOtherVars
    /\ NoDeleteMany

\* A client whose deleteMany is called with one of the lists.
InitDelete ==
    /\ InitConfigVars /\ InitResourceVars /\ InitDeleteVars /\ InitUploadVars
    /\ InitOtherVars
    /\ fileIds \in IdLists
    /\ replyPlan \in ReplyPlans(Len(fileIds))

NextConfig ==
    \/ \E c \in CallSlots : getStorageConfig(c)
    \/ \E c \in CallSlots, reply \in ConfigReplies : getStorageConfigSettle(c, reply)
    \/ \E c \in CallSlots : ConfigCallDone(c)
    \/ clearStorageConfigCache
    \/ \E key \in Keys : getPublicUrl(key)

NextResource ==
    \/ \E op \in {"get", "delete"} : ResourceCall(op)
    \/ \E reply \in HttpReplies : ResourceSettle(reply)

NextDelete ==
    \/ deleteMany
    \/ \E p \in 1..Len(fileIds) : deleteSettle(p)
    \/ deleteManyResume

NextUpload ==
    \/ \E size \in FileSizes, callback \in BOOLEAN : uploadWithProgress(size, callback)
    \/ \E reply \in UploadReplies : AcquireSettle(reply)
    \/ \E computable \in BOOLEAN, loaded \in 0..fileSize : XhrProgress(computable, loaded)
    \/ \E status \in XhrStatuses : XhrLoad(status)
    \/ XhrError
    \/ \E reply \in UploadReplies : ConfirmSettle(reply)

NextQuota ==
    \/ CanUploadCall
    \/ \E reply \in QuotaReplies : CanUploadSettle(reply)

\* A client whose token is set and cleared while one uploadWithProgress
\* call and one deleteMany call of two batches run; the deletes of a batch
\* are answered in order.
AuthIds == [p \in 1..(batchSize + 1) |-> p]

InitAuth ==
    /\ InitConfigVars /\ InitResourceVars /\ InitDeleteVars /\ InitUploadVars
    /\ InitOtherVars
    /\ fileIds = AuthIds
    /\ replyPlan = [p \in 1..Len(AuthIds) |-> DeleteSucceeds]

NextAuth ==
    \/ \E token \in TokenStrings : setAuthToken(token)
    \/ clearAuthToken
    \/ uploadWithProgress(1, FALSE)
    \/ \E reply \in UploadReplies : AcquireSettle(reply)
    \/ \E status \in XhrStatuses : XhrLoad(status)
    \/ XhrError
    \/ \E reply \in UploadReplies : ConfirmSettle(reply)
    \/ deleteMany
    \/ \E p \in pending : (\A q \in pending : p <= q) /\ deleteSettle(p)
    \/ deleteManyResume

NextHook ==
    \/ \E h \in HookSlots, kind \in {"upload", "uploadWithProgress"} : HookUpload(h, kind)
    \/ \E h \in HookSlots, progress \in ProgressValues : HookProgress(h, progress)
    \/ \E h \in HookSlots, ok \in BOOLEAN : HookClientSettle(h, ok)
    \/ \E h \in HookSlots : HookRefreshed(h)
    \/ \E h \in HookSlots : HookCallDone(h)

SpecConfig   == Init /\ [][NextConfig]_vars
SpecResource == Init /\ [][NextResource]_vars
SpecDelete   == InitDelete /\ [][NextDelete]_vars
SpecUpload   == Init /\ [][NextUpload]_vars
SpecQuota    == Init /\ [][NextQuota]_vars
SpecHook     == Init /\ [][NextHook]_vars
SpecAuth     == InitAuth /\ [][NextAuth]_vars

Next ==
    \/ NextConfig \/ NextResource \/ NextDelete \/ NextUpload
    \/ NextQuota \/ NextHook
    \/ (\E token \in TokenStrings : setAuthToken(token)) \/ clearAuthToken
Spec == Init /\ [][Next]_vars

----------------------------------------------------------------------------
(* Properties of the storage-config cache (checked under SpecConfig) *)

Starts(c) == cfgCall[c].pc = "idle" /\ cfgCall'[c].pc # "idle"
Settles(c) == cfgCall[c].pc = "fetching" /\ cfgCall'[c].pc = "returned"

\* C6: once the config is cached, a getStorageConfig call returns the cached
\* value and dispatches no request; a cached config goes away only through
\* clearStorageConfigCache.
C6_CachedConfigReturnedWithoutFetch ==
    [][/\ \A c \in CallSlots :
            (Starts(c) /\ ~storageConfig.isNull) =>
                /\ cfgCall'[c].pc = "returned"
                /\ cfgCall'[c].ret = storageConfig
                /\ fetches' = fetches
                /\ storageConfig' = storageConfig
       /\ (~storageConfig.isNull /\ storageConfig'.isNull) =>
            cfgLast' = "clearStorageConfigCache"]_vars

C6_Witness ==
    /\ cfgLast = "getStorageConfig"
    /\ ~storageConfig.isNull
    /\ fetches = 1
    /\ \E c \in CallSlots :
          /\ cfgCall[c].pc = "returned"
          /\ cfgCall[c].fetched = "none"
          /\ cfgCall[c].ret = storageConfig

ClaimedLegacyBase ==
    <<"h", "t", "t", "p", "s", ":", "/", "/", "s", "3", ".", "e", "u", "-", "c", "e", "n", "t", "r", "a", "l", "-", "2", ".", "w", "a", "s", "a", "b", "i", "s", "y", "s", ".", "c", "o", "m", "/", "v", "l", "i", "b", "e", ".", "c", "o", "m">>

\* C7: a getStorageConfig call whose fetch fails leaves the cache as it was
\* (unresolved stays unresolved), returns the legacy descriptor and does not
\* raise; a call started in the unresolved state dispatches a fetch.
C7_FailedFetchFallsBackUncached ==
    [][\A c \in CallSlots :
         /\ (Settles(c) /\ cfgCall'[c].fetched = "failed") =>
                /\ storageConfig' = storageConfig
                /\ ~cfgCall'[c].raised
                /\ cfgCall'[c].ret.provider = <<"w", "a", "s", "a", "b", "i">>
                /\ cfgCall'[c].ret.publicUrlBase = ClaimedLegacyBase
         /\ (Starts(c) /\ storageConfig.isNull) =>
                /\ cfgCall'[c].pc = "fetching"
                /\ fetches' = fetches + 1]_vars

\* A call failed, the cache is still empty, and the next call is fetching.
C7_Witness ==
    /\ storageConfig.isNull
    /\ fetches = 2
    /\ cfgLast = "getStorageConfig"
    /\ cfgCall[1].pc = "returned" /\ cfgCall[1].fetched = "failed"
    /\ cfgCall[1].ret.publicUrlBase = ClaimedLegacyBase
    /\ cfgCall[2].pc = "fetching"

\* C8: right after clearStorageConfigCache the cache is empty, getPublicUrl
\* returns the legacy form, and a getStorageConfig call dispatches a fetch.
C8_ClearForcesUnresolved ==
    /\ [](cfgLast = "clearStorageConfigCache" => storageConfig.isNull)
    /\ [][cfgLast = "clearStorageConfigCache" =>
            /\ (cfgLast' = "getPublicUrl") =>
                   urlResult'.url = ClaimedLegacyBase \o <<"/">> \o urlResult'.key
            /\ \A c \in CallSlots :
                   Starts(c) => (cfgCall'[c].pc = "fetching" /\ fetches' = fetches + 1)]_vars

\* The cache was filled by a served fetch and has been cleared since.
C8_Witness ==
    /\ cfgLast = "clearStorageConfigCache"
    /\ storageConfig.isNull
    /\ \E c \in CallSlots : cfgCall[c].pc = "returned" /\ cfgCall[c].fetched = "served"

\* The cached base with one trailing slash, if any, removed.
OneSlashRemoved(base) ==
    IF base # <<>> /\ base[Len(base)] = "/"
    THEN [k \in 1..(Len(base) - 1) |-> base[k]]
    ELSE base

\* C9: getPublicUrl dispatches nothing and leaves the cache alone; with no
\* cached config it returns the legacy base, "/" and the key; with one, the
\* cached base less one trailing slash, "/" and the key.
C9_PublicUrlIsLocal ==
    [][urlResult' # urlResult =>
          /\ storageConfig' = storageConfig
          /\ fetches' = fetches
          /\ cfgCall' = cfgCall
          /\ urlResult'.url =
                IF storageConfig.isNull
                THEN ClaimedLegacyBase \o <<"/">> \o urlResult'.key
                ELSE OneSlashRemoved(storageConfig.publicUrlBase) \o <<"/">>
                        \o urlResult'.key]_vars

\* getPublicUrl("a/b") with the base "https://cdn.example/x/" cached.
C9_Witness ==
    /\ cfgLast = "getPublicUrl"
    /\ storageConfig.publicUrlBase = CdnBase \o <<"/">>
    /\ urlResult.key = <<"a", "/", "b">>
    /\ urlResult.url = <<"h", "t", "t", "p", "s", ":", "/", "/", "c", "d", "n", ".", "e", "x", "a", "m", "p", "l", "e", "/", "x", "/", "a", "/", "b">>

----------------------------------------------------------------------------
(* Properties of get and delete (checked under SpecResource) *)

SentinelOf(op) == IF op = "get" THEN "null" ELSE "false"

\* C10: on an unsuccessful envelope whose error text contains "not found",
\* get returns null and delete false; on any other unsuccessful envelope
\* they raise; delete returns true only on an envelope with success true.
C10_NotFoundIsTheOnlySentinel ==
    resCall.pc = "settled" =>
        LET envelope == request(resCall.reply)
            isEnvelope == ~envelope.thrown /\ ~envelope.isNull
        IN  /\ (isEnvelope /\ ~envelope.success) =>
                IF envelope.hasError /\ Includes(envelope.error, NotFoundText)
                THEN /\ ~resCall.outcome.raised
                     /\ resCall.outcome.value = SentinelOf(resCall.op)
                ELSE resCall.outcome.raised
            /\ (resCall.op = "delete" /\ resCall.outcome.value = "true") =>
                (isEnvelope /\ envelope.success /\ ~resCall.outcome.raised)

\* delete on {success: false, error: "file not found"} has returned false.
C10_Witness ==
    /\ resCall.pc = "settled"
    /\ resCall.op = "delete"
    /\ ~resCall.reply.body.success
    /\ resCall.reply.body.error = ErrFileNotFound
    /\ resCall.outcome = Return("false")

----------------------------------------------------------------------------
(* Properties of deleteMany (checked under SpecDelete) *)

Range(seq) == {seq[k] : k \in 1..Len(seq)}
Count(seq, x) == Cardinality({k \in 1..Len(seq) : seq[k] = x})
Distinct(seq) == \A j, k \in 1..Len(seq) : seq[j] = seq[k] => j = k

\* How the delete of position p ends, given the server's reply to it.
Ends(p) == Settlement(delete(request(replyPlan[p])))

\* C1 as stated: the two lists have N entries together, every input id is
\* in exactly one of them, and they hold input ids only.
C1_EveryIdInExactlyOneList ==
    dmPc = "returned" =>
        /\ Len(deleted) + Len(failed) = Len(fileIds)
        /\ \A id \in Range(fileIds) :
              (id \in Range(deleted)) # (id \in Range(failed))
        /\ Range(deleted) \cup Range(failed) \subseteq Range(fileIds)

\* C1, amended: the two lists have N entries together, hold input ids only,
\* and each id occurs in them, taken together, as often as in the input; so
\* an id that occurs once in the input is in exactly one list.
C1_ListsPartitionTheInput ==
    dmPc = "returned" =>
        /\ Len(deleted) + Len(failed) = Len(fileIds)
        /\ Range(deleted) \cup Range(failed) \subseteq Range(fileIds)
        /\ \A id \in Range(fileIds) :
              /\ Count(deleted, id) + Count(failed, id) = Count(fileIds, id)
              /\ Count(fileIds, id) = 1 =>
                    (id \in Range(deleted)) # (id \in Range(failed))

\* Two batches of repeated ids have been sorted, some id into both lists.
C1_Witness ==
    /\ dmPc = "returned"
    /\ Len(fileIds) > 10
    /\ ~Distinct(fileIds)
    /\ Range(deleted) \cap Range(failed) # {}
    /\ \E p, q \in 1..Len(fileIds) : Ends(p) = "false" /\ Ends(q) = "rejected"

\* C2: the deletes of at most one batch of 10 consecutive ids are in flight;
\* a delete is dispatched only when none is in flight, and then exactly the
\* next 10 ids (or the rest) are; ceil(N / 10) batches are dispatched.
C2_BatchesOfTenInOrder ==
    /\ [](/\ Cardinality(pending) <= 10
          /\ pending \subseteq (10 * (batches - 1) + 1)..(10 * batches)
          /\ dmPc = "returned" =>
                (pending = {} /\ batches = (Len(fileIds) + 9) \div 10))
    /\ [][pending' \ pending # {} =>
            /\ pending = {}
            /\ batches' = batches + 1
            /\ pending' = {p \in 1..Len(fileIds) :
                             10 * batches < p /\ p <= 10 * batches + 10}]_vars

\* The third batch of a list of 21 ids is in flight.
C2_Witness ==
    /\ dmPc = "awaiting"
    /\ Len(fileIds) = 21
    /\ batches = 3
    /\ pending = {21}

\* C3: deleteMany never rejects; when it returns, every batch has been
\* dispatched, the id of every delete that rejected is in failed, and the id
\* of every delete that returned true is in deleted.
C3_RejectionsGoToFailed ==
    /\ dmPc # "rejected"
    /\ dmPc = "returned" =>
          /\ batches = (Len(fileIds) + 9) \div 10
          /\ \A p \in 1..Len(fileIds) :
                /\ Ends(p) = "rejected" => fileIds[p] \in Range(failed)
                /\ Ends(p) = "true" => fileIds[p] \in Range(deleted)
          /\ \A id \in Range(fileIds) :
                Count(failed, id) >=
                    Cardinality({p \in 1..Len(fileIds) :
                                   fileIds[p] = id /\ Ends(p) = "rejected"})

\* A delete of the first batch rejected and one of the second succeeded.
C3_Witness ==
    /\ dmPc = "returned"
    /\ \E p \in 1..10, q \in 11..Len(fileIds) :
          /\ Ends(p) = "rejected" /\ fileIds[p] \in Range(failed)
          /\ Ends(q) = "true" /\ fileIds[q] \in Range(deleted)

----------------------------------------------------------------------------
(* Properties of uploadWithProgress (checked under SpecUpload) *)

FlowOrder == <<AcquireRequest, BinaryPut, ConfirmRequest>>

\* A JSON request of the flow succeeded: request() returned an envelope with
\* success and a payload.
Succeeded(reply) ==
    LET envelope == request(reply)
    IN  ~envelope.thrown /\ ~envelope.isNull /\ envelope.success /\ envelope.hasData

Is2xx(status) == status \in 200..299

\* C4: acquire, binary PUT and confirm are sent in this order, each after the
\* one before succeeded (the confirm after a 2xx load of the PUT); a failed
\* acquire or PUT rejects the call with nothing sent after it, a failed
\* confirm rejects it, and the call resolves only on a successful confirm.
C4_ThreeRequestsInOrder ==
    /\ \E k \in 0..3 : upSent = SubSeq(FlowOrder, 1, k)
    /\ Len(upSent) >= 2 => Succeeded(upOutcome.acquire)
    /\ Len(upSent) = 3 => (Is2xx(upOutcome.put) /\ ~upOutcome.putError)
    /\ (upOutcome.acquire # NoReply /\ ~Succeeded(upOutcome.acquire)) =>
          (upPc = "rejected" /\ Len(upSent) = 1)
    /\ (upOutcome.putError \/ (upOutcome.put # 0 /\ ~Is2xx(upOutcome.put))) =>
          (upPc = "rejected" /\ Len(upSent) = 2)
    /\ (upOutcome.confirm # NoReply /\ ~Succeeded(upOutcome.confirm)) =>
          upPc = "rejected"
    /\ upPc = "resolved" => (Len(upSent) = 3 /\ Succeeded(upOutcome.confirm))
    /\ upPc = "confirming" => (Len(upSent) = 3 /\ upOutcome.confirm = NoReply)
    /\ upPc = "putting" => (Len(upSent) = 2 /\ upOutcome.put = 0)

\* The call resolved after all three requests, the PUT answered 204.
C4_Witness ==
    /\ upPc = "resolved"
    /\ upSent = FlowOrder
    /\ upOutcome.put = 204
    /\ Succeeded(upOutcome.confirm)

\* C5 as stated: the values passed to onProgress never decrease, 100 is
\* passed only for an event with loaded = file.size, and an event whose
\* length is not computable passes nothing.
C5_ProgressReachesHundredOnlyWhenSent ==
    /\ [](xhrEvent.notified => xhrEvent.lengthComputable)
    /\ []((xhrEvent.notified /\ delivered.last = 100) => xhrEvent.loaded = fileSize)
    /\ [][(delivered.any /\ delivered'.any) => delivered'.last >= delivered.last]_vars

----------------------------------------------------------------------------
(* Properties of the transport (checked under SpecResource) *)

FetchRejected(reply) == reply.net = "fail"
BodyUnparseable(reply) == reply.net = "ok" /\ reply.body.kind = "malformed"
NonSuccessStatus(reply) ==
    reply.net = "ok" /\ (reply.status < 200 \/ reply.status > 299)

\* C11 as stated: request never raises, hands every failed interaction to
\* its caller as an envelope with success false, and fetches exactly once.
C11_RequestNeverRaises ==
    resCall.pc = "settled" =>
        /\ resCall.fetched = 1
        /\ ~resCall.response.thrown
        /\ (FetchRejected(resCall.reply) \/ BodyUnparseable(resCall.reply)
              \/ NonSuccessStatus(resCall.reply)) =>
               (~resCall.response.isNull /\ ~resCall.response.success)

\* C11, amended: request fetches exactly once per call and raises exactly
\* when fetch rejects, the body cannot be parsed, or the body is null on a
\* non-2xx status; a non-2xx object body without error text comes back as an
\* envelope with success false, any other parsed body is returned as it is.
C11_RequestRaisesOnlyOnTransportFailure ==
    resCall.pc = "settled" =>
        LET reply == resCall.reply
            response == resCall.response
        IN  /\ resCall.fetched = 1
            /\ response.thrown <=>
                 \/ FetchRejected(reply)
                 \/ BodyUnparseable(reply)
                 \/ (NonSuccessStatus(reply) /\ reply.body.kind = "null")
            /\ (reply.net = "ok" /\ reply.body.kind = "object") =>
                 IF NonSuccessStatus(reply) /\ reply.body.error = <<>>
                 THEN ~response.success /\ response.error # <<>>
                 ELSE /\ response.success = reply.body.success
                      /\ response.error = reply.body.error
                      /\ response.hasData = reply.body.hasData

\* A call whose fetch was rejected has settled: request raised, after one fetch.
C11_Witness ==
    /\ resCall.pc = "settled"
    /\ resCall.reply = NetworkFailure
    /\ resCall.response.thrown
    /\ resCall.fetched = 1
    /\ resCall.outcome.raised

Http404NotFound == <<"H", "T", "T", "P", " ", "4", "0", "4", ":", " ", "N", "o", "t", " ", "F", "o", "u", "n", "d">>
Http403Forbidden == <<"H", "T", "T", "P", " ", "4", "0", "3", ":", " ", "F", "o", "r", "b", "i", "d", "d", "e", "n">>

\* C16: a non-2xx response whose parsed body has no error field reaches the
\* method as the error text "HTTP <status>: <statusText>"; for 404 Not Found
\* that text does not contain "not found", so get and delete raise with it
\* instead of returning null / false.
C16_SynthesizedNotFoundRaises ==
    (/\ resCall.pc = "settled"
     /\ NonSuccessStatus(resCall.reply)
     /\ resCall.reply.body.kind = "object"
     /\ ~resCall.reply.body.hasError) =>
        /\ resCall.response.error =
             (IF resCall.reply.status = 404 THEN Http404NotFound ELSE Http403Forbidden)
        /\ ~resCall.response.success
        /\ resCall.reply.status = 404 =>
             /\ ~Includes(resCall.response.error, NotFoundText)
             /\ resCall.outcome = Raise(Http404NotFound)

\* get on a 404 answer whose body is {} has raised "HTTP 404: Not Found".
C16_Witness ==
    /\ resCall.pc = "settled"
    /\ resCall.op = "get"
    /\ resCall.reply.status = 404
    /\ resCall.reply.body.kind = "object"
    /\ ~resCall.reply.body.hasError
    /\ ~resCall.reply.body.success
    /\ resCall.outcome.raised
    /\ resCall.outcome.message = Http404NotFound

----------------------------------------------------------------------------
(* Properties of canUpload (checked under SpecQuota) *)

\* The reply is an envelope with success true carrying a verdict.
SuccessfulVerdict(reply) ==
    /\ reply.http.net = "ok"
    /\ reply.http.body.kind = "object"
    /\ reply.http.body.success
    /\ reply.data.kind = "verdict"

\* The reply is an envelope that reports failure: success is not true, or
\* the status is non-2xx and the body names no error.
UnsuccessfulEnvelope(reply) ==
    /\ reply.http.net = "ok"
    /\ reply.http.body.kind = "object"
    /\ \/ ~reply.http.body.success
       \/ (NonSuccessStatus(reply.http) /\ reply.http.body.error = <<>>)

\* C14: canUpload returns the verdict of a successful envelope as the server
\* sent it, allowed false included; on a transport exception or an
\* unsuccessful envelope it raises, so a returned verdict is always the
\* server's own.
C14_VerdictVerbatimOrRaise ==
    quotaCall.pc = "settled" =>
        LET reply == quotaCall.reply
            outcome == quotaCall.outcome
        IN  /\ (SuccessfulVerdict(reply) /\ ~UnsuccessfulEnvelope(reply)) =>
                 (~outcome.raised /\ outcome.verdict = reply.data)
            /\ (FetchRejected(reply.http) \/ BodyUnparseable(reply.http)
                  \/ UnsuccessfulEnvelope(reply)) => outcome.raised
            /\ ~outcome.raised =>
                 (SuccessfulVerdict(reply) /\ outcome.verdict = reply.data)

\* canUpload has returned {allowed: false, reason: "quota exceeded"} from a
\* 200 answer with success true.
C14_Witness ==
    /\ quotaCall.pc = "settled"
    /\ quotaCall.reply.http.status = 200
    /\ quotaCall.reply.http.body.success
    /\ ~quotaCall.outcome.raised
    /\ ~quotaCall.outcome.verdict.allowed
    /\ quotaCall.outcome.verdict.reason = QuotaExceeded
    /\ quotaCall.outcome.verdict = quotaCall.reply.data

----------------------------------------------------------------------------
(* Properties of the useStorage hook (checked under SpecHook) *)

InFlight(h) == hookCall[h].pc \in {"uploading", "refreshing"}

\* C17 as stated: uploading is true whenever an upload started through the
\* hook has not settled, and uploadProgress is 0 whenever uploading is false.
C17_UploadingWhileAnyInFlight ==
    /\ (\E h \in HookSlots : InFlight(h)) => uploading
    /\ ~uploading => uploadProgress = 0

----------------------------------------------------------------------------
(* Properties of the config cache under a concurrent clear (SpecConfig) *)

\* C15 as stated: a getStorageConfig call whose fetch was in flight when
\* clearStorageConfigCache ran never writes the cache; after a clear only a
\* call started later, whose fetch is served, makes the cache resolved again.
C15_StaleFetchNeverRepopulates ==
    [][/\ \A c \in CallSlots :
            (Settles(c) /\ cfgCall[c].cleared) => storageConfig' = storageConfig
       /\ (storageConfig.isNull /\ ~storageConfig'.isNull) =>
            \E c \in CallSlots :
                Settles(c) /\ ~cfgCall[c].cleared /\ cfgCall'[c].fetched = "served"]_vars

----------------------------------------------------------------------------
(* Properties of the request headers (checked under SpecAuth) *)

Names(headers) == {h.name : h \in headers}

\* The headers of the API requests sent so far: those of the upload's two
\* JSON requests and those of the deleteMany batches.
ApiHeadersSent ==
    {upHeaders[k] : k \in {j \in 1..Len(upSent) : upSent[j] # BinaryPut}}
    \cup {dmHeaders[b] : b \in 1..Len(dmHeaders)}

\* C12: the PUT of the file to uploadUrl carries no X-App-Id, X-App-Secret
\* or Authorization header, and no header value holding the app secret or a
\* token, whatever this.authToken is when the PUT is sent.
C12_PutCarriesNoCredentials ==
    \A k \in 1..Len(upSent) :
        upSent[k] = BinaryPut =>
            /\ Names(upHeaders[k]) \cap {"X-App-Id", "X-App-Secret", "Authorization"} = {}
            /\ \A h \in upHeaders[k] :
                 \A secret \in {AppSecret, TokenA, TokenB} : ~Includes(h.value, secret)

\* The PUT has been sent by a client holding token-a, after an acquire
\* request that carried it.
C12_Witness ==
    /\ Len(upSent) >= 2
    /\ upSent[2] = BinaryPut
    /\ upPc = "putting"
    /\ authToken = Token(TokenA)
    /\ Header("Authorization", Bearer \o TokenA) \in upHeaders[1]

\* A token is held: this.authToken is a non-empty string.
TokenSet == ~authToken.isNull /\ authToken.value # <<>>

\* The headers a request dispatched now must carry.
DispatchedWithCurrentToken(headers) ==
    IF TokenSet
    THEN Header("Authorization", Bearer \o authToken.value) \in headers
    ELSE "Authorization" \notin Names(headers)

\* C13: every API request carries X-App-Id and X-App-Secret and one header
\* per name; a request carries Authorization: Bearer <token> exactly when a
\* token is held at its dispatch, with the value held then, also for the
\* later requests of a running uploadWithProgress or deleteMany; the headers
\* of a request already sent never change, whatever setAuthToken and
\* clearAuthToken do afterwards.
C13_AuthorizationFollowsTokenAtDispatch ==
    /\ [](\A headers \in ApiHeadersSent :
            /\ Header("X-App-Id", AppId) \in headers
            /\ Header("X-App-Secret", AppSecret) \in headers
            /\ \A g, h \in headers : g.name = h.name => g = h)
    /\ [][/\ (Len(upSent') > Len(upSent) /\ upSent'[Len(upSent')] # BinaryPut) =>
               /\ authToken' = authToken
               /\ DispatchedWithCurrentToken(upHeaders'[Len(upSent')])
          /\ Len(dmHeaders') > Len(dmHeaders) =>
               /\ authToken' = authToken
               /\ DispatchedWithCurrentToken(dmHeaders'[Len(dmHeaders')])
          /\ \A k \in 1..Len(upHeaders) : upHeaders'[k] = upHeaders[k]
          /\ \A b \in 1..Len(dmHeaders) : dmHeaders'[b] = dmHeaders[b]]_vars

\* The acquire request went out with token-a and the confirm request with
\* token-b; the first batch of deletes went out with token-a, the second
\* without a token.
C13_Witness ==
    /\ Len(upSent) = 3
    /\ Header("Authorization", Bearer \o TokenA) \in upHeaders[1]
    /\ Header("Authorization", Bearer \o TokenB) \in upHeaders[3]
    /\ Len(dmHeaders) = 2
    /\ Header("Authorization", Bearer \o TokenA) \in dmHeaders[1]
    /\ "Authorization" \notin Names(dmHeaders[2])

====
